---- MODULE Spec2Model ----
(***************************************************************************)
(* Model of api/src/cache/lru_cache.py: LRUCache, a memory-bounded,        *)
(* versioned, TTL-aware LRU cache guarded by one re-entrant lock.          *)
(***************************************************************************)
EXTENDS Integers, Sequences, FiniteSets, TLC

(* ------------------------------ bounds --------------------------------- *)
MaxTime == 2          \* the clock runs over 0..MaxTime
MaxVersion == 2       \* update_version draws new_version from 1..MaxVersion
MaxTtl == 1           \* put draws an explicit timeout from 1..MaxTtl
MaxMemoryMb == 1      \* the constructor draws max_memory_mb from 1..MaxMemoryMb

(* ------------------------- Python values ------------------------------- *)
\* Python objects are tagged records so that None, ints, strings, booleans
\* and payloads are all comparable.
None == [t |-> "None"]
PyInt(n) == [t |-> "int", n |-> n]
PyBool(b) == [t |-> "bool", b |-> b]
PyStr(chars) == [t |-> "str", s |-> chars]
PyBytes(id, size) == [t |-> "bytes", id |-> id, size |-> size]

\* Python truthiness of an optional int (used by `elif self.default_timeout`)
Truthy(x) == x # None /\ x # PyInt(0)

MB == 1024 * 1024

\* sys.getsizeof(value): a deterministic size of the stored object
getsizeof(value) == value.size

Digit(d) == <<"0", "1", "2", "3", "4", "5", "6", "7", "8", "9">>[d + 1]

RECURSIVE Digits(_)
Digits(n) == IF n < 10 THEN <<Digit(n)>> ELSE Digits(n \div 10) \o <<Digit(n % 10)>>

\* f"v{self.version}:{key}"; the f-string formats None as "None"
get_versioned_key(ver, key) ==
  <<"v">> \o Digits(ver) \o <<":">>
          \o (IF key = None THEN <<"N", "o", "n", "e">> ELSE key.s)

(* ------------------------------ inputs --------------------------------- *)
LogicalKeys == {PyStr(<<"a">>), PyStr(<<"b">>)}
LruKeys == LogicalKeys \cup {PyStr(<<"c">>)}
InvalidKeys == {PyStr(<<>>), None}
Values == {PyBytes("x", MB \div 2), PyBytes("z", (MaxMemoryMb + 1) * MB)}
AllKeys == LruKeys \cup InvalidKeys
Versions == 1..MaxVersion
Threads == {"t1", "t2"}

(* ------------------------------- state --------------------------------- *)
VARIABLES
  cache,            \* OrderedDict: sequence of [k, v], head = least recent
  memory_usage,     \* self.memory_usage
  timeouts,         \* self.timeouts: versioned key -> expiration timestamp
  version,          \* self.version
  max_memory,       \* self.max_memory
  default_timeout,  \* self.default_timeout
  now,              \* time.time()
  ret,              \* what the last call returned
  lastOp,           \* the last event: call name, key, argument
  evicted,          \* keys the last call evicted for capacity
  recency,          \* history: held keys in order of their last access
  intended,         \* history: versioned key -> expiry its last put asked for
  stale,            \* history: keys held when update_version ran, not put since
  pc,               \* per thread: the statement it is about to execute
  lock,             \* self.lock (RLock): owner and recursion count
  local,            \* per thread: arguments and local variables of its call
  expect,           \* history: per thread, what its call must leave behind
  store,            \* cluster (Redis db 0): string keys, key -> value
  lru_access,       \* cluster: the sorted set "lru_access", member -> score
  loop,             \* test_forced_eviction's fill loop: index i and position
  sweep,            \* a running evict_oldest call: position and locals
  client,           \* a running set / track_access pair: position and locals
  rc,               \* RedisCluster: self._client, the clients opened so far
                    \* and (history) how the last close of a client ended
  redis_cache,      \* tasks.py redis_cache (Redis db 1): key -> value, expiry
  metrics,          \* the counters and gauges the tasks update
  ran,              \* tasks run so far and (history) the last L1 backfill
  cache_version     \* the module global CACHE_VERSION of tasks.py

convars == <<pc, lock, local, expect>>

\* the remote tier, which no LRUCache method touches
\* the state of api/src/tasks.py besides its LRUCache
remotevars == <<store, lru_access, loop, sweep, client, rc,
               redis_cache, metrics, ran, cache_version>>

vars == <<cache, memory_usage, timeouts, version, max_memory, default_timeout,
          now, ret, lastOp, evicted, recency, intended, stale, convars, remotevars>>

(* ----------------------- OrderedDict helpers --------------------------- *)
Keys(c) == {c[i].k : i \in 1..Len(c)}
Has(c, key) == \E i \in 1..Len(c) : c[i].k = key
Lookup(c, key) == c[CHOOSE i \in 1..Len(c) : c[i].k = key].v
Pop(c, key) == SelectSeq(c, LAMBDA e : e.k # key)
Restrict(f, S) == [x \in S |-> f[x]]
Range(q) == {q[i] : i \in 1..Len(q)}
Position(q, x) == CHOOSE i \in 1..Len(q) : q[i] = x

RECURSIVE SeqOf(_)
SeqOf(S) == IF S = {} THEN <<>>
            ELSE LET x == CHOOSE y \in S : TRUE IN <<x>> \o SeqOf(S \ {x})

\* d[key] = value on an OrderedDict: a held key keeps its position
dict_set(c, key, value) ==
  IF Has(c, key)
  THEN [i \in 1..Len(c) |-> IF c[i].k = key THEN [k |-> key, v |-> value] ELSE c[i]]
  ELSE Append(c, [k |-> key, v |-> value])

RECURSIVE SumSizes(_)
SumSizes(c) == IF c = <<>> THEN 0 ELSE getsizeof(Head(c).v) + SumSizes(Tail(c))

\* The instance as one record, for the methods below; popped lists the keys a
\* call evicted for capacity.
Self == [cache |-> cache, memory_usage |-> memory_usage, timeouts |-> timeouts,
         version |-> version, popped |-> <<>>]

(* ----------------------------- LRUCache -------------------------------- *)
\* is_expired with the comparison off by one: expired already at the deadline
is_expired_at_deadline(tm, key, t) == IF key \in DOMAIN tm THEN t >= tm[key] ELSE FALSE

is_expired(tm, key, t) == IF key \in DOMAIN tm THEN t > tm[key] ELSE FALSE

remove_item(s, key) ==
  IF Has(s.cache, key)
  THEN [s EXCEPT !.cache = Pop(s.cache, key),
                 !.memory_usage = s.memory_usage - getsizeof(Lookup(s.cache, key)),
                 !.timeouts = Restrict(s.timeouts, DOMAIN s.timeouts \ {key})]
  ELSE s

RECURSIVE remove_all(_, _)
remove_all(s, keys) ==
  IF keys = {} THEN s
  ELSE LET key == CHOOSE x \in keys : TRUE
       IN remove_all(remove_item(s, key), keys \ {key})

cleanup_expired(s, current_time) ==
  LET expired_keys == {k \in DOMAIN s.timeouts : current_time > s.timeouts[k]}
  IN remove_all(s, expired_keys)

\* popitem without the size subtraction
popitem_oldest_unaccounted(s) ==
  [s EXCEPT !.cache = Tail(s.cache),
            !.popped = Append(s.popped, Head(s.cache).k)]

\* one iteration of put's loop: popitem(last=False) and the size subtraction
popitem_oldest(s) ==
  [s EXCEPT !.cache = Tail(s.cache),
            !.memory_usage = s.memory_usage - getsizeof(Head(s.cache).v),
            !.popped = Append(s.popped, Head(s.cache).k)]

RECURSIVE make_room(_, _, _)
make_room(s, value_size, maxmem) ==
  IF s.memory_usage + value_size > maxmem /\ s.cache # <<>>
  THEN make_room(popitem_oldest(s), value_size, maxmem)
  ELSE s

set_timeout(tm, key, timeout, dflt, t) ==
  IF timeout # None
  THEN [x \in DOMAIN tm \cup {key} |-> IF x = key THEN t + timeout.n ELSE tm[x]]
  ELSE IF Truthy(dflt)
       THEN [x \in DOMAIN tm \cup {key} |-> IF x = key THEN t + dflt.n ELSE tm[x]]
       ELSE tm

put(s, key, value, timeout, dflt, maxmem, t) ==
  LET s1 == cleanup_expired(s, t)
      versioned_key == get_versioned_key(s.version, key)
      s2 == IF Has(s1.cache, versioned_key) THEN remove_item(s1, versioned_key) ELSE s1
      value_size == getsizeof(value)
      s3 == make_room(s2, value_size, maxmem)
  IN [s3 EXCEPT !.cache = dict_set(s3.cache, versioned_key, value),
                !.memory_usage = s3.memory_usage + value_size,
                !.timeouts = set_timeout(s3.timeouts, versioned_key, timeout, dflt, t)]

\* a hit that leaves the entry where it was
move_to_end_skipped(c, key) == c

\* value = self.cache.pop(k); self.cache[k] = value
move_to_end(c, key) == dict_set(Pop(c, key), key, Lookup(c, key))

\* get returns the new instance state s and the returned object r
get(s, key, t) ==
  LET s1 == cleanup_expired(s, t)
      versioned_key == get_versioned_key(s.version, key)
  IN IF ~Has(s1.cache, versioned_key) \/ is_expired(s1.timeouts, versioned_key, t)
     THEN [s |-> s1, r |-> None]
     ELSE [s |-> [s1 EXCEPT !.cache = move_to_end(s1.cache, versioned_key)],
           r |-> Lookup(s1.cache, versioned_key)]

\* the loop of force_eviction entered already at the limit
RECURSIVE evict_at_budget(_, _)
evict_at_budget(s, maxmem) ==
  IF s.memory_usage >= maxmem /\ s.cache # <<>>
  THEN evict_at_budget(
         [remove_item(s, Head(s.cache).k) EXCEPT !.popped = Append(s.popped, Head(s.cache).k)],
         maxmem)
  ELSE s

RECURSIVE evict_over_budget(_, _)
evict_over_budget(s, maxmem) ==
  IF s.memory_usage > maxmem /\ s.cache # <<>>
  THEN evict_over_budget(
         [remove_item(s, Head(s.cache).k) EXCEPT !.popped = Append(s.popped, Head(s.cache).k)],
         maxmem)
  ELSE s

force_eviction(s, maxmem, t) == evict_over_budget(cleanup_expired(s, t), maxmem)

clear(s) == [s EXCEPT !.cache = <<>>, !.memory_usage = 0, !.timeouts = <<>>]

exists(s, key, t) ==
  LET versioned_key == get_versioned_key(s.version, key)
  IN Has(s.cache, versioned_key) /\ ~is_expired(s.timeouts, versioned_key, t)

\* update_version that forgets to clear
update_version_keeping(s, new_version) == [s EXCEPT !.version = new_version]

update_version(s, new_version) == clear([s EXCEPT !.version = new_version])

(* --------------------------- history helpers --------------------------- *)
\* order of last access among the keys still held after a call
Touch(rec, c, touched) ==
  LET kept == SelectSeq(rec, LAMBDA k : k \in Keys(c) /\ k \notin touched)
  IN IF touched = {} THEN kept
     ELSE kept \o <<CHOOSE k \in touched : TRUE>>

Event(op, key, arg) == [op |-> op, key |-> key, arg |-> arg]

\* threading.RLock(): free, or owned count times by one thread
Unlocked == [owner |-> "", count |-> 0]

\* arguments and locals of a call in progress (None where unset)
NoLocals == [op |-> "", key |-> None, value |-> None, new_version |-> 0,
             rmkey |-> <<>>, back |-> "", after |-> "", todo |-> <<>>,
             reg |-> 0, val |-> None, r |-> None]

\* evict_oldest not running: its locals unset
NoSweep == [pc |-> "idle", max_memory |-> 0, current_mem |-> 0, total_keys |-> 0,
            num_to_remove |-> 0, oldest_keys |-> <<>>, removed |-> {}, after |-> {}]

\* prometheus cache_hits / cache_misses / task_retries / cache_memory and the
\* OpenTelemetry cache_hits / cache_misses, all at zero
NoMetrics == [hits |-> 0, misses |-> 0, otel_hits |-> 0, otel_misses |-> 0,
              retries |-> 0, lru_bytes |-> 0, redis_bytes |-> 0]

(* ------------------------------ actions -------------------------------- *)
\* tasks.py: CACHE_VERSION = 2
CACHE_VERSION == 2

Init ==
  /\ cache = <<>>
  /\ memory_usage = 0
  /\ timeouts = <<>>
  /\ version = 1
  /\ max_memory \in {m * MB : m \in 1..MaxMemoryMb}
  /\ default_timeout \in {None, PyInt(MaxTtl)}
  /\ now = 0
  /\ ret = None
  /\ lastOp = Event("init", None, None)
  /\ evicted = {}
  /\ recency = <<>>
  /\ intended = <<>>
  /\ stale = {}
  /\ pc = [t \in Threads |-> "idle"]
  /\ lock = Unlocked
  /\ local = [t \in Threads |-> NoLocals]
  /\ expect = [t \in Threads |-> None]
  /\ store = <<>>
  /\ lru_access = <<>>
  /\ loop = [i |-> 0, pc |-> "set"]
  /\ sweep = NoSweep
  /\ client = [pc |-> "idle", key |-> <<>>, timestamp |-> 0]
  /\ rc = [client |-> None, opened |-> 0, closed |-> ""]
  /\ redis_cache = <<>>
  /\ metrics = NoMetrics
  /\ ran = [count |-> 0, fill |-> None]
  /\ cache_version = CACHE_VERSION

Install(s) ==
  /\ cache' = s.cache
  /\ memory_usage' = s.memory_usage
  /\ timeouts' = s.timeouts
  /\ version' = s.version

\* time.time() moves on between calls; the clock readings of one call under the
\* lock see the same instant
Tick ==
  /\ now < MaxTime
  /\ now' = now + 1
  /\ lastOp' = Event("tick", None, None)
  /\ UNCHANGED <<cache, memory_usage, timeouts, version, max_memory,
                 default_timeout, ret, evicted, recency, intended, stale,
                 convars, remotevars>>

PutOp(key, value, timeout) ==
  LET vk == get_versioned_key(version, key)
      s == put(Self, key, value, timeout, default_timeout, max_memory, now)
      gone == Range(s.popped) \cup {vk}
  IN /\ Install(s)
     /\ ret' = None
     /\ lastOp' = Event("put", key, [value |-> value, re |-> key \in stale])
     /\ evicted' = Range(s.popped)
     /\ recency' = Touch(recency, s.cache, {vk})
     /\ intended' = [x \in (DOMAIN intended \ gone) \cup {vk} |->
                       IF x = vk
                       THEN [value |-> value,
                             explicit |-> timeout # None,
                             deadline |->
                               IF timeout # None THEN PyInt(now + timeout.n)
                               ELSE IF Truthy(default_timeout)
                               THEN PyInt(now + default_timeout.n)
                               ELSE None]
                       ELSE intended[x]]
     /\ stale' = stale \ {key}
     /\ UNCHANGED <<max_memory, default_timeout, now,
                 convars, remotevars>>

GetOp(key) ==
  LET vk == get_versioned_key(version, key)
      g == get(Self, key, now)
  IN /\ Install(g.s)
     /\ ret' = g.r
     /\ lastOp' = Event("get", key, None)
     /\ evicted' = {}
     /\ recency' = Touch(recency, g.s.cache, IF g.r # None THEN {vk} ELSE {})
     /\ UNCHANGED <<max_memory, default_timeout, now, intended, stale,
                 convars, remotevars>>

ExistsOp(key) ==
  /\ ret' = PyBool(exists(Self, key, now))
  /\ lastOp' = Event("exists", key, None)
  /\ evicted' = {}
  /\ UNCHANGED <<cache, memory_usage, timeouts, version, max_memory,
                 default_timeout, now, recency, intended, stale,
                 convars, remotevars>>

ForceEvictionOp ==
  LET s == force_eviction(Self, max_memory, now)
  IN /\ Install(s)
     /\ ret' = None
     /\ lastOp' = Event("force_eviction", None, None)
     /\ evicted' = Range(s.popped)
     /\ recency' = Touch(recency, s.cache, {})
     /\ intended' = Restrict(intended, DOMAIN intended \ Range(s.popped))
     /\ UNCHANGED <<max_memory, default_timeout, now, stale,
                 convars, remotevars>>

ClearOp ==
  /\ Install(clear(Self))
  /\ ret' = None
  /\ lastOp' = Event("clear", None, None)
  /\ evicted' = {}
  /\ recency' = <<>>
  /\ intended' = <<>>
  /\ UNCHANGED <<max_memory, default_timeout, now, stale,
                 convars, remotevars>>

UpdateVersionOp(new_version) ==
  LET s == update_version(Self, new_version)
  IN /\ Install(s)
     /\ ret' = None
     /\ lastOp' = Event("update_version", None, None)
     /\ evicted' = {}
     /\ recency' = Touch(recency, s.cache, {})
     /\ intended' = Restrict(intended, DOMAIN intended \cap Keys(s.cache))
     /\ stale' = stale \cup {k \in AllKeys : get_versioned_key(version, k) \in Keys(cache)}
     /\ UNCHANGED <<max_memory, default_timeout, now,
                 convars, remotevars>>

Next ==
  \/ Tick
  \/ \E key \in LogicalKeys, value \in Values,
        timeout \in {None} \cup {PyInt(n) : n \in 1..MaxTtl} :
       PutOp(key, value, timeout)
  \/ \E key \in LogicalKeys : GetOp(key)
  \/ \E key \in LogicalKeys : ExistsOp(key)
  \/ ForceEvictionOp
  \/ ClearOp
  \/ \E new_version \in Versions : UpdateVersionOp(new_version)

Spec == Init /\ [][Next]_vars

\* The same cache driven with three keys, so that a put has to choose a victim.
NextLru ==
  \/ Tick
  \/ \E key \in LruKeys, value \in Values : PutOp(key, value, None)
  \/ \E key \in LruKeys : GetOp(key)
  \/ ForceEvictionOp
  \/ ClearOp

SpecLru == Init /\ [][NextLru]_vars

\* The cache driven with the keys the contract calls invalid.
NextKeys ==
  \/ \E key \in InvalidKeys \cup {PyStr(<<"a">>)}, value \in Values :
       PutOp(key, value, None)
  \/ \E key \in InvalidKeys \cup {PyStr(<<"a">>)} : GetOp(key)
  \/ ClearOp

SpecKeys == Init /\ [][NextKeys]_vars

\* The class has no delete method; its only removal of one key is the private
\* _remove_item(key), called here with the versioned key of a logical key.
RemoveItemOp(key) ==
  LET vk == get_versioned_key(version, key)
      s == remove_item(Self, vk)
  IN /\ Install(s)
     /\ ret' = None
     /\ lastOp' = Event("remove_item", key, PyBool(Has(cache, vk)))
     /\ evicted' = {}
     /\ recency' = Touch(recency, s.cache, {})
     /\ intended' = Restrict(intended, DOMAIN intended \ {vk})
     /\ UNCHANGED <<max_memory, default_timeout, now, stale, convars, remotevars>>

NextRemove ==
  \/ Tick
  \/ \E key \in LogicalKeys, value \in Values,
        timeout \in {None} \cup {PyInt(n) : n \in 1..MaxTtl} :
       PutOp(key, value, timeout)
  \/ \E key \in LogicalKeys : GetOp(key)
  \/ \E key \in LogicalKeys : RemoveItemOp(key)

SpecRemove == Init /\ [][NextRemove]_vars

(* ------------------- threads sharing one instance ---------------------- *)
\* Each thread runs its call statement by statement; `x += e` and `x -= e` on
\* an attribute are a read followed by a write.  A statement that raises
\* (KeyError, StopIteration) leaves the `with self.lock` block.
Outcome(s, r) ==
  [s |-> [cache |-> s.cache, memory_usage |-> s.memory_usage,
          timeouts |-> s.timeouts, version |-> s.version],
   r |-> r]

Raised == [t |-> "exception"]

\* what a call returns and leaves behind when it runs alone from here
Sequential(call) ==
  CASE call.op = "get" ->
         LET g == get(Self, call.key, now) IN Outcome(g.s, g.r)
    [] call.op = "put" ->
         Outcome(put(Self, call.key, call.value, None, default_timeout,
                     max_memory, now), None)
    [] call.op = "force_eviction" ->
         Outcome(force_eviction(Self, max_memory, now), None)
    [] call.op = "clear" -> Outcome(clear(Self), None)
    [] call.op = "update_version" ->
         Outcome(update_version(Self, call.new_version), None)

\* an acquire that does not wait for the owner
CanAcquire_unlocked(lk, t) == TRUE

\* the acquire of a plain threading.Lock: the owner waits for itself
CanAcquire_plain(lk, t) == lk.count = 0

\* lock.acquire() succeeds when the lock is free or already owned by t
CanAcquire(lk, t) == lk.count = 0 \/ lk.owner = t

Goto(t, label) == pc' = [pc EXCEPT ![t] = label]
SetLocal(t, f) == local' = [local EXCEPT ![t] = f]
Frozen == <<remotevars, max_memory, default_timeout, ret, lastOp, evicted, recency,
            intended, stale>>

Call(t, op, key, value, new_version) ==
  /\ pc[t] = "idle"
  /\ SetLocal(t, [NoLocals EXCEPT !.op = op, !.key = key, !.value = value,
                                  !.new_version = new_version, !.after = "release"])
  /\ Goto(t, "acquire")
  /\ UNCHANGED <<cache, memory_usage, timeouts, version, now, Frozen, lock, expect>>

\* with self.lock:
Acquire(t) ==
  /\ pc[t] = "acquire"
  /\ CanAcquire(lock, t)
  /\ lock' = [owner |-> t, count |-> lock.count + 1]
  /\ expect' = [expect EXCEPT ![t] = Sequential(local[t])]
  /\ Goto(t, CASE local[t].op = "get" -> "get_cleanup"
               [] local[t].op = "put" -> "put_cleanup"
               [] local[t].op = "force_eviction" -> "fe_cleanup"
               [] local[t].op = "clear" -> "clear_cache"
               [] local[t].op = "update_version" -> "uv_set")
  /\ UNCHANGED <<cache, memory_usage, timeouts, version, now, Frozen, local>>

\* leaving the with block, normally or by an exception
Release(t) ==
  /\ pc[t] = "release"
  /\ lock' = IF lock.count <= 1 THEN Unlocked ELSE [lock EXCEPT !.count = lock.count - 1]
  /\ expect' = [expect EXCEPT ![t] = None]
  /\ SetLocal(t, NoLocals)
  /\ Goto(t, "idle")
  /\ UNCHANGED <<cache, memory_usage, timeouts, version, now, Frozen>>

\* the clock moves between calls
TickIdle ==
  /\ lock.count = 0
  /\ now < MaxTime
  /\ now' = now + 1
  /\ UNCHANGED <<cache, memory_usage, timeouts, version, Frozen, convars, remotevars>>

\* _cleanup_expired: the list of expired keys ...
CleanupScan(t) ==
  /\ pc[t] \in {"get_cleanup", "put_cleanup", "fe_cleanup"}
  /\ SetLocal(t, [local[t] EXCEPT
                    !.todo = SeqOf({k \in DOMAIN timeouts : now > timeouts[k]}),
                    !.after = CASE pc[t] = "get_cleanup" -> "get_check"
                                [] pc[t] = "put_cleanup" -> "put_has"
                                [] pc[t] = "fe_cleanup" -> "fe_loop"])
  /\ Goto(t, "cleanup_loop")
  /\ UNCHANGED <<cache, memory_usage, timeouts, version, now, Frozen, lock, expect>>

\* ... and one _remove_item for each
CleanupLoop(t) ==
  /\ pc[t] = "cleanup_loop"
  /\ IF local[t].todo = <<>>
     THEN /\ Goto(t, local[t].after)
          /\ UNCHANGED local
     ELSE /\ SetLocal(t, [local[t] EXCEPT !.rmkey = Head(local[t].todo),
                                          !.todo = Tail(local[t].todo),
                                          !.back = "cleanup_loop"])
          /\ Goto(t, "rm_check")
  /\ UNCHANGED <<cache, memory_usage, timeouts, version, now, Frozen, lock, expect>>

\* _remove_item: if key in self.cache
RemoveCheck(t) ==
  /\ pc[t] = "rm_check"
  /\ Goto(t, IF Has(cache, local[t].rmkey) THEN "rm_pop" ELSE local[t].back)
  /\ UNCHANGED <<cache, memory_usage, timeouts, version, now, Frozen, lock, local, expect>>

\* value = self.cache.pop(key)
RemovePop(t) ==
  /\ pc[t] = "rm_pop"
  /\ IF Has(cache, local[t].rmkey)
     THEN /\ cache' = Pop(cache, local[t].rmkey)
          /\ SetLocal(t, [local[t] EXCEPT !.val = Lookup(cache, local[t].rmkey)])
          /\ Goto(t, "rm_read")
     ELSE /\ SetLocal(t, [local[t] EXCEPT !.r = Raised])
          /\ Goto(t, "release")
          /\ UNCHANGED cache
  /\ UNCHANGED <<memory_usage, timeouts, version, now, Frozen, lock, expect>>

\* self.memory_usage -= sys.getsizeof(value): the read
RemoveRead(t) ==
  /\ pc[t] = "rm_read"
  /\ SetLocal(t, [local[t] EXCEPT !.reg = memory_usage])
  /\ Goto(t, "rm_write")
  /\ UNCHANGED <<cache, memory_usage, timeouts, version, now, Frozen, lock, expect>>

\* self.memory_usage -= sys.getsizeof(value): the write
RemoveWrite(t) ==
  /\ pc[t] = "rm_write"
  /\ memory_usage' = local[t].reg - getsizeof(local[t].val)
  /\ Goto(t, "rm_timeout")
  /\ UNCHANGED <<cache, timeouts, version, now, Frozen, lock, local, expect>>

\* self.timeouts.pop(key, None)
RemoveTimeout(t) ==
  /\ pc[t] = "rm_timeout"
  /\ timeouts' = Restrict(timeouts, DOMAIN timeouts \ {local[t].rmkey})
  /\ Goto(t, local[t].back)
  /\ UNCHANGED <<cache, memory_usage, version, now, Frozen, lock, local, expect>>

\* get: if versioned_key not in self.cache or self._is_expired(versioned_key)
GetCheck(t) ==
  LET versioned_key == get_versioned_key(version, local[t].key)
  IN /\ pc[t] = "get_check"
     /\ IF ~Has(cache, versioned_key) \/ is_expired(timeouts, versioned_key, now)
        THEN Goto(t, "release") /\ UNCHANGED local
        ELSE /\ SetLocal(t, [local[t] EXCEPT !.rmkey = versioned_key])
             /\ Goto(t, "get_pop")
     /\ UNCHANGED <<cache, memory_usage, timeouts, version, now, Frozen, lock, expect>>

\* value = self.cache.pop(versioned_key)
GetPop(t) ==
  /\ pc[t] = "get_pop"
  /\ IF Has(cache, local[t].rmkey)
     THEN /\ cache' = Pop(cache, local[t].rmkey)
          /\ SetLocal(t, [local[t] EXCEPT !.val = Lookup(cache, local[t].rmkey)])
          /\ Goto(t, "get_set")
     ELSE /\ SetLocal(t, [local[t] EXCEPT !.r = Raised])
          /\ Goto(t, "release")
          /\ UNCHANGED cache
  /\ UNCHANGED <<memory_usage, timeouts, version, now, Frozen, lock, expect>>

\* self.cache[versioned_key] = value; return value
GetSet(t) ==
  /\ pc[t] = "get_set"
  /\ cache' = dict_set(cache, local[t].rmkey, local[t].val)
  /\ SetLocal(t, [local[t] EXCEPT !.r = local[t].val])
  /\ Goto(t, "release")
  /\ UNCHANGED <<memory_usage, timeouts, version, now, Frozen, lock, expect>>

\* put: if versioned_key in self.cache: self._remove_item(versioned_key)
PutHas(t) ==
  LET versioned_key == get_versioned_key(version, local[t].key)
  IN /\ pc[t] = "put_has"
     /\ IF Has(cache, versioned_key)
        THEN /\ SetLocal(t, [local[t] EXCEPT !.rmkey = versioned_key, !.back = "put_loop"])
             /\ Goto(t, "rm_check")
        ELSE /\ SetLocal(t, [local[t] EXCEPT !.rmkey = versioned_key])
             /\ Goto(t, "put_loop")
     /\ UNCHANGED <<cache, memory_usage, timeouts, version, now, Frozen, lock, expect>>

\* while self.memory_usage + value_size > self.max_memory and self.cache
PutLoop(t) ==
  /\ pc[t] = "put_loop"
  /\ Goto(t, IF memory_usage + getsizeof(local[t].value) > max_memory /\ cache # <<>>
             THEN "put_popitem" ELSE "put_set")
  /\ UNCHANGED <<cache, memory_usage, timeouts, version, now, Frozen, lock, local, expect>>

\* _, oldest_value = self.cache.popitem(last=False)
PutPopitem(t) ==
  /\ pc[t] = "put_popitem"
  /\ IF cache # <<>>
     THEN /\ cache' = Tail(cache)
          /\ SetLocal(t, [local[t] EXCEPT !.val = Head(cache).v])
          /\ Goto(t, "put_sub_read")
     ELSE /\ SetLocal(t, [local[t] EXCEPT !.r = Raised])
          /\ Goto(t, "release")
          /\ UNCHANGED cache
  /\ UNCHANGED <<memory_usage, timeouts, version, now, Frozen, lock, expect>>

\* self.memory_usage -= sys.getsizeof(oldest_value): the read
PutSubRead(t) ==
  /\ pc[t] = "put_sub_read"
  /\ SetLocal(t, [local[t] EXCEPT !.reg = memory_usage])
  /\ Goto(t, "put_sub_write")
  /\ UNCHANGED <<cache, memory_usage, timeouts, version, now, Frozen, lock, expect>>

\* self.memory_usage -= sys.getsizeof(oldest_value): the write
PutSubWrite(t) ==
  /\ pc[t] = "put_sub_write"
  /\ memory_usage' = local[t].reg - getsizeof(local[t].val)
  /\ Goto(t, "put_loop")
  /\ UNCHANGED <<cache, timeouts, version, now, Frozen, lock, local, expect>>

\* self.cache[versioned_key] = value
PutSet(t) ==
  /\ pc[t] = "put_set"
  /\ cache' = dict_set(cache, local[t].rmkey, local[t].value)
  /\ Goto(t, "put_add_read")
  /\ UNCHANGED <<memory_usage, timeouts, version, now, Frozen, lock, local, expect>>

\* self.memory_usage += value_size: the read
PutAddRead(t) ==
  /\ pc[t] = "put_add_read"
  /\ SetLocal(t, [local[t] EXCEPT !.reg = memory_usage])
  /\ Goto(t, "put_add_write")
  /\ UNCHANGED <<cache, memory_usage, timeouts, version, now, Frozen, lock, expect>>

\* self.memory_usage += value_size: the write
PutAddWrite(t) ==
  /\ pc[t] = "put_add_write"
  /\ memory_usage' = local[t].reg + getsizeof(local[t].value)
  /\ Goto(t, "put_timeout")
  /\ UNCHANGED <<cache, timeouts, version, now, Frozen, lock, local, expect>>

\* the timeout of the new entry (no explicit timeout is passed here)
PutTimeout(t) ==
  /\ pc[t] = "put_timeout"
  /\ timeouts' = set_timeout(timeouts, local[t].rmkey, None, default_timeout, now)
  /\ Goto(t, "release")
  /\ UNCHANGED <<cache, memory_usage, version, now, Frozen, lock, local, expect>>

\* force_eviction: while self.memory_usage > self.max_memory and self.cache
ForceLoop(t) ==
  /\ pc[t] = "fe_loop"
  /\ Goto(t, IF memory_usage > max_memory /\ cache # <<>> THEN "fe_next" ELSE "release")
  /\ UNCHANGED <<cache, memory_usage, timeouts, version, now, Frozen, lock, local, expect>>

\* self._remove_item(next(iter(self.cache)))
ForceNext(t) ==
  /\ pc[t] = "fe_next"
  /\ IF cache # <<>>
     THEN /\ SetLocal(t, [local[t] EXCEPT !.rmkey = Head(cache).k, !.back = "fe_loop"])
          /\ Goto(t, "rm_check")
     ELSE /\ SetLocal(t, [local[t] EXCEPT !.r = Raised])
          /\ Goto(t, "release")
  /\ UNCHANGED <<cache, memory_usage, timeouts, version, now, Frozen, lock, expect>>

\* clear: self.cache.clear()
ClearCache(t) ==
  /\ pc[t] = "clear_cache"
  /\ cache' = <<>>
  /\ Goto(t, "clear_memory")
  /\ UNCHANGED <<memory_usage, timeouts, version, now, Frozen, lock, local, expect>>

\* self.memory_usage = 0
ClearMemory(t) ==
  /\ pc[t] = "clear_memory"
  /\ memory_usage' = 0
  /\ Goto(t, "clear_timeouts")
  /\ UNCHANGED <<cache, timeouts, version, now, Frozen, lock, local, expect>>

\* self.timeouts.clear(), then leave clear's with block
ClearTimeouts(t) ==
  /\ pc[t] = "clear_timeouts"
  /\ timeouts' = <<>>
  /\ Goto(t, local[t].after)
  /\ UNCHANGED <<cache, memory_usage, version, now, Frozen, lock, local, expect>>

\* update_version: self.version = new_version
UpdateSet(t) ==
  /\ pc[t] = "uv_set"
  /\ version' = local[t].new_version
  /\ Goto(t, "uv_clear")
  /\ UNCHANGED <<cache, memory_usage, timeouts, now, Frozen, lock, local, expect>>

\* self.clear(): clear takes the lock its caller already owns
UpdateClear(t) ==
  /\ pc[t] = "uv_clear"
  /\ CanAcquire(lock, t)
  /\ lock' = [owner |-> t, count |-> lock.count + 1]
  /\ SetLocal(t, [local[t] EXCEPT !.after = "uv_return"])
  /\ Goto(t, "clear_cache")
  /\ UNCHANGED <<cache, memory_usage, timeouts, version, now, Frozen, expect>>

\* clear returns into update_version: the inner with block is left
UpdateReturn(t) ==
  /\ pc[t] = "uv_return"
  /\ lock' = IF lock.count <= 1 THEN Unlocked ELSE [lock EXCEPT !.count = lock.count - 1]
  /\ Goto(t, "release")
  /\ UNCHANGED <<cache, memory_usage, timeouts, version, now, Frozen, local, expect>>

Step(t) ==
  \/ Acquire(t) \/ Release(t)
  \/ CleanupScan(t) \/ CleanupLoop(t)
  \/ RemoveCheck(t) \/ RemovePop(t) \/ RemoveRead(t) \/ RemoveWrite(t) \/ RemoveTimeout(t)
  \/ GetCheck(t) \/ GetPop(t) \/ GetSet(t)
  \/ PutHas(t) \/ PutLoop(t) \/ PutPopitem(t) \/ PutSubRead(t) \/ PutSubWrite(t)
  \/ PutSet(t) \/ PutAddRead(t) \/ PutAddWrite(t) \/ PutTimeout(t)
  \/ ForceLoop(t) \/ ForceNext(t)
  \/ ClearCache(t) \/ ClearMemory(t) \/ ClearTimeouts(t)
  \/ UpdateSet(t) \/ UpdateClear(t) \/ UpdateReturn(t)

NextConc ==
  \/ TickIdle
  \/ \E t \in Threads, key \in LogicalKeys : Call(t, "get", key, None, 0)
  \/ \E t \in Threads, key \in LogicalKeys, value \in Values :
       Call(t, "put", key, value, 0)
  \/ \E t \in Threads : Call(t, "force_eviction", None, None, 0)
  \/ \E t \in Threads : Call(t, "clear", None, None, 0)
  \/ \E t \in Threads, new_version \in Versions :
       Call(t, "update_version", None, None, new_version)
  \/ \E t \in Threads : Step(t)

SpecConc == Init /\ [][NextConc]_vars

InitLock ==
  /\ Init
  /\ max_memory = MB
  /\ default_timeout = PyInt(MaxTtl)

\* one thread reads and writes, the other maintains; every stored value is
\* larger than the budget, which takes put and force_eviction through
\* their loops
NextLock ==
  \/ TickIdle
  \/ \E key \in LogicalKeys : Call("t1", "get", key, None, 0)
  \/ \E key \in LogicalKeys :
       Call("t1", "put", key, PyBytes("z", (MaxMemoryMb + 1) * MB), 0)
  \/ Call("t2", "force_eviction", None, None, 0)
  \/ Call("t2", "clear", None, None, 0)
  \/ \E new_version \in Versions : Call("t2", "update_version", None, None, new_version)
  \/ \E t \in Threads : Step(t)

\* a fair scheduler: a thread that can take its next statement takes it, and
\* a thread waiting for the lock gets it if the lock is free again and again
SpecLock ==
  /\ InitLock
  /\ [][NextLock]_vars
  /\ \A t \in Threads : WF_vars(Step(t)) /\ SF_vars(Acquire(t))

(* ------------- remote tier: src/cache/lru_tracker.py ------------------- *)
MaxKeys == 20         \* the fill loop inserts test:0 .. test:(MaxKeys - 1)

\* "x" * 1024, the value test_forced_eviction stores under every key
ValueBytes == 1024

\* f"test:{i}"
TestKey(i) == <<"t", "e", "s", "t", ":">> \o Digits(i)

\* the first n members of S in sorted-set order: by score, then by member.
\* Redis breaks score ties by the byte-wise order of the members; CodePoints
\* lists the characters of the keys in code-point order.
RECURSIVE ZSorted(_, _, _)
ZSorted(z, S, n) ==
  LET CodePoints == <<"0", "1", "2", "3", "4", "5", "6", "7", "8", "9", ":", "e", "s", "t">>
      RECURSIVE LexLess(_, _)
      LexLess(a, b) ==
        IF a = <<>> THEN b # <<>>
        ELSE IF b = <<>> THEN FALSE
        ELSE IF Head(a) = Head(b) THEN LexLess(Tail(a), Tail(b))
        ELSE Position(CodePoints, Head(a)) < Position(CodePoints, Head(b))
      ZLess(a, b) == z[a] < z[b] \/ (z[a] = z[b] /\ LexLess(a, b))
  IN IF S = {} \/ n <= 0 THEN <<>>
     ELSE LET m == CHOOSE x \in S : \A y \in S \ {x} : ZLess(x, y)
          IN <<m>> \o ZSorted(z, S \ {m}, n - 1)

\* cluster.set(key, value)
cluster_set(st, key, value) ==
  [x \in DOMAIN st \cup {key} |-> IF x = key THEN value ELSE st[x]]

\* cluster.delete(*keys): absent keys are ignored
cluster_delete(st, keys) == Restrict(st, DOMAIN st \ keys)

\* cluster.zadd(name, {member: score}): a held member gets the new score
zadd(z, member, score) ==
  [x \in DOMAIN z \cup {member} |-> IF x = member THEN score ELSE z[x]]

zcard(z) == Cardinality(DOMAIN z)

\* ZRANGE taken from the high end of the order
zrange_newest(z, start, stop) ==
  LET all == ZSorted(z, DOMAIN z, zcard(z))
      n == Len(all)
  IN SubSeq(all, n - (IF stop + 1 < n THEN stop + 1 ELSE n) + 1, n - start)

\* cluster.zrange(name, start, stop): ranks start..stop, both inclusive
zrange(z, start, stop) ==
  LET upto == ZSorted(z, DOMAIN z, stop + 1)
  IN SubSeq(upto, start + 1, Len(upto))

zrem(z, members) == Restrict(z, DOMAIN z \ members)

\* cluster.info("memory")["used_memory"]: the bytes of the values held
used_memory(st) ==
  LET RECURSIVE SumValues(_)
      SumValues(S) ==
        IF S = {} THEN 0
        ELSE LET x == CHOOSE y \in S : TRUE IN getsizeof(st[x]) + SumValues(S \ {x})
  IN SumValues(DOMAIN st)

\* int(0.1 * total_keys), at least 1. The double nearest 0.1 lies above 0.1,
\* so the product never rounds below total_keys / 10 and int() truncates it
\* to the integer quotient.
num_to_remove(total_keys) ==
  LET n == total_keys \div 10 IN IF n < 1 THEN 1 ELSE n

\* evict_oldest on the pair r = [store, lru_access]
evict_oldest(r, maxmem) ==
  LET current_mem == used_memory(r.store)
      total_keys == zcard(r.lru_access)
      oldest_keys == zrange(r.lru_access, 0, num_to_remove(total_keys) - 1)
  IN IF current_mem < maxmem THEN r
     ELSE IF oldest_keys # <<>>
     THEN [store |-> cluster_delete(r.store, Range(oldest_keys)),
           lru_access |-> zrem(r.lru_access, Range(oldest_keys))]
     ELSE r

localvars == <<cache, memory_usage, timeouts, version, max_memory,
               default_timeout, evicted, recency, intended, stale, convars,
               redis_cache, metrics, ran, cache_version>>

\* the loop body's cluster.set(key, "x" * 1024)
FillSet ==
  /\ loop.pc = "set"
  /\ loop.i < MaxKeys
  /\ store' = cluster_set(store, TestKey(loop.i), PyBytes("x", ValueBytes))
  /\ loop' = [loop EXCEPT !.pc = "track"]
  /\ lastOp' = Event("set", PyStr(TestKey(loop.i)), None)
  /\ UNCHANGED <<lru_access, now, ret, sweep, client, rc, localvars>>

\* the loop body's track_access(key)
FillTrack ==
  /\ loop.pc = "track"
  /\ lru_access' = zadd(lru_access, TestKey(loop.i), now)
  /\ loop' = [i |-> loop.i + 1, pc |-> "set"]
  /\ lastOp' = Event("track_access", PyStr(TestKey(loop.i)), None)
  /\ UNCHANGED <<store, now, ret, sweep, client, rc, localvars>>

\* track_access(key) for a key accessed again, after the loop
TrackAccessOp(key) ==
  /\ loop.pc = "set"
  /\ loop.i = MaxKeys
  /\ lru_access' = zadd(lru_access, key, now)
  /\ lastOp' = Event("track_access", PyStr(key), None)
  /\ UNCHANGED <<store, loop, now, ret, sweep, client, rc, localvars>>

\* evict_oldest(max_memory), the last call of the test, after a loop of any
\* length; the event keeps what the sweep started from
EvictOldestOp(maxmem) ==
  LET r == evict_oldest([store |-> store, lru_access |-> lru_access], maxmem)
  IN /\ loop.pc # "end"
     /\ loop' = [loop EXCEPT !.pc = "end"]
     /\ store' = r.store
     /\ lru_access' = r.lru_access
     /\ ret' = None
     /\ lastOp' = Event("evict_oldest", None,
                        [max_memory |-> maxmem, store |-> store,
                         lru_access |-> lru_access])
     /\ UNCHANGED <<now, sweep, client, rc, localvars>>

InitEvict == Init /\ default_timeout = None

\* max_memory is scaled with the loop: a tenth of what the loop stores would
\* never be reached by a prefix of the loop, so half of it is used
NextEvict ==
  \/ Tick
  \/ FillSet
  \/ FillTrack
  \/ \E key \in {TestKey(0), TestKey(1)} : TrackAccessOp(key)
  \/ \E maxmem \in {(MaxKeys \div 2) * ValueBytes} : EvictOldestOp(maxmem)

SpecEvict == InitEvict /\ [][NextEvict]_vars

(* ------ evict_oldest interleaved with set / track_access traffic ------- *)
quiet == <<loop, rc, ret, lastOp, now, localvars>>

\* cluster.set(key, value), the first call of a client's set / track pair
ClientSet(key) ==
  /\ client.pc = "idle"
  /\ store' = cluster_set(store, key, PyBytes("x", ValueBytes))
  /\ client' = [client EXCEPT !.pc = "stamp", !.key = key]
  /\ UNCHANGED <<lru_access, sweep, quiet>>

\* track_access: timestamp = time.time()
ClientStamp ==
  /\ client.pc = "stamp"
  /\ client' = [client EXCEPT !.pc = "zadd", !.timestamp = now]
  /\ UNCHANGED <<store, lru_access, sweep, quiet>>

\* track_access: cluster.zadd("lru_access", {key: timestamp}); a sweep that
\* has selected its victims notes the keys accessed since
ClientZadd ==
  /\ client.pc = "zadd"
  /\ lru_access' = zadd(lru_access, client.key, client.timestamp)
  /\ client' = [pc |-> "idle", key |-> <<>>, timestamp |-> 0]
  /\ sweep' = IF sweep.pc \in {"delete", "zrem"}
              THEN [sweep EXCEPT !.after = @ \cup {client.key}]
              ELSE sweep
  /\ UNCHANGED <<store, quiet>>

\* current_mem = int(cluster.info("memory")["used_memory"]) and the early return
SweepInfo(maxmem) ==
  /\ sweep.pc = "idle"
  /\ sweep' = [NoSweep EXCEPT !.max_memory = maxmem,
                              !.current_mem = used_memory(store),
                              !.pc = IF used_memory(store) < maxmem
                                     THEN "done" ELSE "zcard"]
  /\ UNCHANGED <<store, lru_access, client, quiet>>

\* total_keys = cluster.zcard("lru_access"); num_to_remove
SweepZcard ==
  /\ sweep.pc = "zcard"
  /\ sweep' = [sweep EXCEPT !.total_keys = zcard(lru_access),
                            !.num_to_remove = num_to_remove(zcard(lru_access)),
                            !.pc = "zrange"]
  /\ UNCHANGED <<store, lru_access, client, quiet>>

\* oldest_keys = cluster.zrange("lru_access", 0, num_to_remove - 1)
SweepZrange ==
  /\ sweep.pc = "zrange"
  /\ LET oldest_keys == zrange(lru_access, 0, sweep.num_to_remove - 1)
     IN sweep' = [sweep EXCEPT !.oldest_keys = oldest_keys,
                               !.pc = IF oldest_keys # <<>> THEN "delete" ELSE "done"]
  /\ UNCHANGED <<store, lru_access, client, quiet>>

\* cluster.delete(*oldest_keys)
SweepDelete ==
  /\ sweep.pc = "delete"
  /\ store' = cluster_delete(store, Range(sweep.oldest_keys))
  /\ sweep' = [sweep EXCEPT !.pc = "zrem",
                            !.removed = @ \cup (Range(sweep.oldest_keys) \cap DOMAIN store)]
  /\ UNCHANGED <<lru_access, client, quiet>>

\* cluster.zrem("lru_access", *oldest_keys)
SweepZrem ==
  /\ sweep.pc = "zrem"
  /\ lru_access' = zrem(lru_access, Range(sweep.oldest_keys))
  /\ sweep' = [sweep EXCEPT !.pc = "done",
                            !.removed = @ \cup (Range(sweep.oldest_keys) \cap DOMAIN lru_access)]
  /\ UNCHANGED <<store, client, quiet>>

\* the call has returned; a later call starts afresh
SweepReturn ==
  /\ sweep.pc = "done"
  /\ sweep' = NoSweep
  /\ UNCHANGED <<store, lru_access, client, quiet>>

\* the ceiling of the concurrent sweep is reached by one stored value
NextSweepConc ==
  \/ Tick
  \/ \E key \in {TestKey(0), TestKey(1)} : ClientSet(key)
  \/ ClientStamp
  \/ ClientZadd
  \/ \E maxmem \in {ValueBytes} : SweepInfo(maxmem)
  \/ SweepZcard
  \/ SweepZrange
  \/ SweepDelete
  \/ SweepZrem
  \/ SweepReturn

SpecSweepConc == InitEvict /\ [][NextSweepConc]_vars

(* ---------------------- api/src/cache/cluster.py ----------------------- *)
MaxClients == 2       \* redis.Redis objects one RedisCluster gets to open

\* an exception that reaches the caller
Raise(exc) == [t |-> "raised", exc |-> exc]

PyDict(d) == [t |-> "dict", d |-> d]

\* info.get(name, default)
dict_get(info, name, default) == IF name \in DOMAIN info.d THEN info.d[name] ELSE default

\* how redis.cluster("info") ends. Its replies: nothing, cluster mode off, no
\* such field, a cluster of three nodes or of none as strings, and the mock of
\* test_cluster_slot_distribution
Queries ==
  LET InfoReplies ==
        { None,
          PyDict([cluster_enabled |-> PyStr(<<"0">>)]),
          PyDict([cluster_state |-> PyStr(<<"o", "k">>)]),
          PyDict([cluster_enabled |-> PyStr(<<"1">>),
                  cluster_slots |-> PyStr(<<"1", "6", "3", "8", "4">>),
                  cluster_known_nodes |-> PyStr(<<"3">>)]),
          PyDict([cluster_enabled |-> PyStr(<<"1">>),
                  cluster_known_nodes |-> PyStr(<<"0">>)]),
          PyDict([cluster_enabled |-> PyBool(TRUE),
                  cluster_slots |-> PyInt(16384),
                  cluster_known_nodes |-> PyInt(3)]) }
  IN {[fault |-> "ok", reply |-> r] : r \in InfoReplies}
       \cup {[fault |-> f, reply |-> None] : f \in {"RedisError", "Exception"}}

Standalone == [t |-> "dict", total_slots |-> 16384, nodes |-> 1,
               slots_per_node |-> PyInt(16384)]

\* get_slot_distribution. body is what the try block and its except clause
\* are about to return or raise before the finally clause runs: a RedisError
\* of close() is logged, any other exception of close() replaces it.
\* int_of is int(v) of an int or of a decimal string; TrueDiv is a / b, a
\* float, which Python compares equal to an int of the same value.
get_slot_distribution(query, closing) ==
  LET RECURSIVE int_of_chars(_)
      int_of_chars(chars) ==
        IF chars = <<>> THEN 0
        ELSE 10 * int_of_chars(SubSeq(chars, 1, Len(chars) - 1))
             + (CHOOSE d \in 0..9 : Digit(d) = chars[Len(chars)])
      int_of(v) == IF v.t = "int" THEN v.n ELSE int_of_chars(v.s)
      RECURSIVE GCD(_, _)
      GCD(a, b) == IF b = 0 THEN a ELSE GCD(b, a % b)
      TrueDiv(a, b) ==
        IF a % b = 0 THEN PyInt(a \div b)
        ELSE [t |-> "float", num |-> a \div GCD(a, b), den |-> b \div GCD(a, b)]
      info == query.reply
      slots == int_of(dict_get(info, "cluster_slots", PyInt(16384)))
      nodes == int_of(dict_get(info, "cluster_known_nodes", PyInt(3)))
      body ==
        IF query.fault = "RedisError" THEN Standalone
        ELSE IF query.fault # "ok" THEN Raise(query.fault)
        ELSE IF info # None /\ dict_get(info, "cluster_enabled", PyStr(<<"0">>)) = PyStr(<<"1">>)
        THEN [t |-> "dict", total_slots |-> slots, nodes |-> nodes,
              slots_per_node |-> IF nodes > 0 THEN TrueDiv(slots, nodes)
                                 ELSE PyInt(slots)]
        ELSE Standalone
  IN IF closing \in {"ok", "RedisError"} THEN body ELSE Raise(closing)

\* the client property: opens a redis.Redis when there is none
client_of(r) ==
  IF r.client = None
  THEN [r EXCEPT !.client = PyInt(r.opened + 1), !.opened = r.opened + 1]
  ELSE r

\* what a command gives back: its reply, the except clause's value on a
\* RedisError, or the exception itself
absorbed(fault, reply, fallback) ==
  IF fault = "ok" THEN reply ELSE IF fault = "RedisError" THEN fallback ELSE Raise(fault)

rc_get(r, st, key, fault) ==
  [rc |-> client_of(r), store |-> st,
   r |-> absorbed(fault, IF key \in DOMAIN st THEN st[key] ELSE None, None)]

rc_set(r, st, key, value, fault) ==
  [rc |-> client_of(r),
   store |-> IF fault = "ok" THEN cluster_set(st, key, value) ELSE st,
   r |-> absorbed(fault, PyBool(TRUE), PyBool(FALSE))]

rc_delete(r, st, key, fault) ==
  [rc |-> client_of(r),
   store |-> IF fault = "ok" THEN cluster_delete(st, {key}) ELSE st,
   r |-> absorbed(fault, PyBool(key \in DOMAIN st), PyBool(FALSE))]

rc_flushall(r, st, fault) ==
  [rc |-> client_of(r),
   store |-> IF fault = "ok" THEN <<>> ELSE st,
   r |-> absorbed(fault, PyBool(TRUE), PyBool(FALSE))]

rc_client_kill_filter(r, st, killed, fault) ==
  [rc |-> client_of(r), store |-> st,
   r |-> absorbed(fault, PyBool(killed # 0), PyBool(FALSE))]

\* close that forgets the client only when closing went well
rc_close_keeping(r, st, fault) ==
  [rc |-> IF r.client = None THEN r
          ELSE IF fault = "ok" THEN [r EXCEPT !.client = None, !.closed = fault]
          ELSE [r EXCEPT !.closed = fault],
   store |-> st,
   r |-> IF r.client # None /\ fault = "Exception" THEN Raise(fault) ELSE None]

\* close: only with a client; the finally clause resets the reference
rc_close(r, st, fault) ==
  [rc |-> IF r.client = None THEN r
          ELSE [r EXCEPT !.client = None, !.closed = fault],
   store |-> st,
   r |-> IF r.client # None /\ fault = "Exception" THEN Raise(fault) ELSE None]

RcCalls == {"rc_get", "rc_set", "rc_delete", "rc_flushall", "rc_client_kill_filter"}

\* one RedisCluster method call; flushall also empties the sorted set
RedisClusterOp(op, key, killed, fault) ==
  LET c == CASE op = "rc_get" -> rc_get(rc, store, key, fault)
             [] op = "rc_set" -> rc_set(rc, store, key, PyBytes("x", ValueBytes), fault)
             [] op = "rc_delete" -> rc_delete(rc, store, key, fault)
             [] op = "rc_flushall" -> rc_flushall(rc, store, fault)
             [] op = "rc_client_kill_filter" ->
                  rc_client_kill_filter(rc, store, killed, fault)
             [] op = "rc_close" -> rc_close(rc, store, fault)
  IN /\ c.rc.opened <= MaxClients
     /\ rc' = c.rc
     /\ store' = c.store
     /\ lru_access' = IF op = "rc_flushall" /\ fault = "ok" THEN <<>> ELSE lru_access
     /\ ret' = c.r
     /\ lastOp' = Event(op, PyStr(key), [fault |-> fault, held |-> rc.client # None])
     /\ UNCHANGED <<loop, sweep, client, now, localvars>>

GetSlotDistributionOp(query, closing) ==
  /\ ret' = get_slot_distribution(query, closing)
  /\ lastOp' = Event("get_slot_distribution", None,
                     [query |-> query, closing |-> closing])
  /\ UNCHANGED <<store, lru_access, loop, sweep, client, rc, now, localvars>>

NextCluster ==
  \/ \E op \in RcCalls \cup {"rc_close"}, key \in {TestKey(0)}, killed \in {0, 1},
          fault \in {"ok", "RedisError", "Exception"} :
       RedisClusterOp(op, key, killed, fault)
  \/ \E query \in Queries, closing \in {"ok", "RedisError", "Exception"} : GetSlotDistributionOp(query, closing)

SpecCluster == InitEvict /\ [][NextCluster]_vars

(* --------------------------- api/src/tasks.py --------------------------- *)
MaxTasks == 2         \* task executions in one run
MaxSleeps == 1        \* the clock of a run of tasks stops at 31 * MaxSleeps

Paths == {<<"p">>}

\* hashlib.sha256(path.encode()).hexdigest(): one digest per path
sha256(path) == <<"#">> \o path

\* cache_key = f"analysis_v2:{hash_val}" of analyze_code_task
cache_key_v2(hash_val) ==
  <<"a", "n", "a", "l", "y", "s", "i", "s", "_", "v", "2", ":">> \o hash_val

\* get_cache_key(project_path, project_id): reads the global at the call; a
\* project_id that is None or empty gives the key without a namespace
get_cache_key(project_path, project_id) ==
  <<"a", "n", "a", "l", "y", "s", "i", "s", "_", "v">> \o Digits(cache_version)
    \o <<":">>
    \o (IF project_id # None /\ project_id.s # <<>>
        THEN project_id.s \o <<":">> ELSE <<>>)
    \o sha256(project_path)

\* what the analyzers may produce for a path
Analyses == {[t |-> "analysis", id |-> "r1"], [t |-> "analysis", id |-> "r2"]}

\* the environment of one execution: get_project_size(path) on either side of
\* the two thresholds; redis_cache.get and setex ending normally or with a
\* transport error; the analysis ending with a result, a TimeoutError or
\* another exception. An input no task reads in that environment is held at
\* one value: the analysis of a missing or partitioned project, the setex of
\* an analysis that raised.
TaskInputs ==
  {inp \in [path : Paths, exists : BOOLEAN,
            size : {999999, 1000000, 5000000, 5000001},
            get_fault : {"ok", "RedisError"},
            analysis : Analyses \cup {[t |-> "raised", exc |-> "TimeoutError"],
                                      [t |-> "raised", exc |-> "Exception"]},
            set_fault : {"ok", "RedisError"}] :
     /\ inp.analysis \notin Analyses => inp.set_fault = "ok"
     /\ ~inp.exists =>
          inp.size = 999999 /\ inp.analysis.t = "raised" /\ inp.analysis.exc = "Exception"
     /\ inp.size >= 5000000 =>
          /\ inp.get_fault = "ok" /\ inp.set_fault = "ok"
          /\ inp.analysis = [t |-> "analysis", id |-> "r1"]}

\* a dict the tasks return; kind names the key that carries the data
ResultData(status, kind, data, cached) ==
  [t |-> "dict", status |-> status, kind |-> kind, data |-> data, cached |-> cached]

\* json.dumps / str.encode / bytes.decode / json.loads: the text carries the
\* dict; its sys.getsizeof is far below max_memory
dumps(d) == [t |-> "str", json |-> d, size |-> 1024]
encode(x) == [x EXCEPT !.t = "bytes"]
loads(x) == x.json

\* redis_cache.get: a key past its expiry is gone
redis_get(l2, key, t) ==
  IF key \in DOMAIN l2 /\ t < l2[key].exp THEN l2[key].v ELSE None

\* setex that gives every key an hour
redis_setex_hour(l2, key, ttl, value, t) ==
  [x \in DOMAIN l2 \cup {key} |->
     IF x = key THEN [v |-> value, exp |-> t + 3600] ELSE l2[x]]

redis_setex(l2, key, ttl, value, t) ==
  [x \in DOMAIN l2 \cup {key} |->
     IF x = key THEN [v |-> value, exp |-> t + ttl] ELSE l2[x]]

\* update_cache_metrics: cache_type is not used
update_cache_metrics(m, cache_type, hit) ==
  IF hit THEN [m EXCEPT !.hits = @ + 1] ELSE [m EXCEPT !.misses = @ + 1]

update_cache_memory(m, cache_type, bytes_used) ==
  IF cache_type = "lru" THEN [m EXCEPT !.lru_bytes = bytes_used]
  ELSE [m EXCEPT !.redis_bytes = bytes_used]

\* lru_cache.put(key, value) of the module's LRUCache; w holds the tiers as
\* one record: the LRUCache instance l1, redis_cache l2, the metrics m
lru_put(w, key, value, t) ==
  [w EXCEPT !.l1 = put(w.l1, PyStr(key), value, None, default_timeout, max_memory, t)]

\* an L2 hit that returns without writing L1
backfill_skipped(w, key, value, t) == w

\* "Atualiza o cache LRU": the L2 value goes into L1 under the path's digest
backfill(w, key, value, t) == lru_put(w, key, value, t)

\* what a task did (history): the tiers it read, whether it computed and
\* stored, and its update_cache_metrics calls with their cache_type
NoTrace == [l1 |-> "skipped", l2 |-> "skipped", computed |-> FALSE,
            stored |-> FALSE, calls |-> <<>>]

MetricCall(cache_type, hit) == [cache_type |-> cache_type, hit |-> hit]

ErrorData(status) == ResultData(status, "error", None, None)

\* analyze_code_task(path): the tiers after the call (w), what it returns (r)
\* and the trace of what it did (tr). analyze_and_save is the task from the analysis on
\* (lines 196-235), entered with the tiers and the trace the read left
analyze_code_task(w, inp, t) ==
  LET hash_val == sha256(inp.path)
      g == get(w.l1, PyStr(hash_val), t)
      w1 == [w EXCEPT !.l1 = g.s]
      cached == redis_get(w.l2, cache_key_v2(hash_val), t)
      hit1 == [w1 EXCEPT !.m = update_cache_memory(
                                 update_cache_metrics(w1.m, "lru", TRUE),
                                 "lru", w1.l1.memory_usage)]
      filled == backfill(w1, hash_val, cached, t)
      hit2 == [filled EXCEPT !.m = update_cache_metrics(filled.m, "redis", TRUE)]
      failed == [w1 EXCEPT !.m = update_cache_metrics(w1.m, "redis", FALSE)]
      analyze_and_save(w0, tr) ==
        LET result_data == ResultData("SUCCESS", "result", inp.analysis, PyBool(FALSE))
            result_json == dumps(result_data)
            ttl == IF inp.size < 1000000 THEN 3600 ELSE 600
            s1 == [w0 EXCEPT !.l2 = redis_setex(w0.l2, cache_key_v2(hash_val), ttl,
                                               encode(result_json), t),
                            !.m = update_cache_memory(w0.m, "redis", getsizeof(result_json))]
            s2 == lru_put(s1, hash_val, result_json, t)
            s3 == [s2 EXCEPT !.m = update_cache_metrics(
                                     update_cache_metrics(
                                       update_cache_memory(s2.m, "lru", s2.l1.memory_usage),
                                       "redis", FALSE),
                                     "lru", FALSE)]
        IN IF inp.analysis = [t |-> "raised", exc |-> "TimeoutError"]
           THEN [w |-> [w0 EXCEPT !.m.retries = @ + 1], r |-> ErrorData("ERROR"), tr |-> tr]
           ELSE IF inp.analysis \notin Analyses
           THEN [w |-> w0, r |-> ErrorData("ERROR"), tr |-> tr]
           ELSE IF inp.set_fault # "ok"
           THEN [w |-> w0, r |-> result_data, tr |-> [tr EXCEPT !.computed = TRUE]]
           ELSE [w |-> s3, r |-> result_data,
                 tr |-> [tr EXCEPT !.computed = TRUE, !.stored = TRUE,
                                   !.calls = @ \o <<MetricCall("redis", FALSE),
                                                    MetricCall("lru", FALSE)>>]]
  IN IF ~inp.exists THEN [w |-> w, r |-> ErrorData("ERROR"), tr |-> NoTrace]
     ELSE IF inp.size > 5000000
     THEN [w |-> w, r |-> [t |-> "workflow"], tr |-> NoTrace]
     ELSE IF Truthy(g.r)
     THEN [w |-> hit1, r |-> loads(g.r),
           tr |-> [NoTrace EXCEPT !.l1 = "hit", !.calls = <<MetricCall("lru", TRUE)>>]]
     ELSE IF inp.get_fault # "ok"
     THEN analyze_and_save(failed,
                           [NoTrace EXCEPT !.l1 = "miss", !.l2 = "error",
                                           !.calls = <<MetricCall("redis", FALSE)>>])
     ELSE IF Truthy(cached)
     THEN [w |-> hit2, r |-> loads(cached),
           tr |-> [NoTrace EXCEPT !.l1 = "miss", !.l2 = "hit",
                                  !.calls = <<MetricCall("redis", TRUE)>>]]
     ELSE analyze_and_save(w1, [NoTrace EXCEPT !.l1 = "miss", !.l2 = "miss"])

\* analyze_code_task_with_bloom(project_path); the Bloom filter of
\* redisbloom/client.py keeps nothing. Any exception ends in the FAILED dict.
analyze_code_task_with_bloom(w, inp, t) ==
  LET project_hash == sha256(inp.path)
      cache_key == get_cache_key(inp.path, None)
      g == get(w.l1, PyStr(project_hash), t)
      w1 == [w EXCEPT !.l1 = g.s]
      cached_result == redis_get(w.l2, cache_key, t)
      filled == backfill(w1, project_hash, cached_result, t)
      hit2 == [filled EXCEPT !.m.otel_hits = @ + 1]
      result_data == ResultData("COMPLETED", "metrics", inp.analysis, PyBool(FALSE))
      result_json == dumps(result_data)
      counted == [w1 EXCEPT !.m.otel_misses = @ + 1]
      ttl == IF inp.size < 1000000 THEN 3600 ELSE 600
      saved == lru_put([counted EXCEPT !.l2 = redis_setex(counted.l2, cache_key, ttl,
                                                          encode(result_json), t)],
                       project_hash, result_json, t)
      miss == [NoTrace EXCEPT !.l1 = "miss", !.l2 = "miss"]
  IN IF Truthy(g.r)
     THEN [w |-> [w1 EXCEPT !.m.otel_hits = @ + 1], r |-> loads(g.r),
           tr |-> [NoTrace EXCEPT !.l1 = "hit"]]
     ELSE IF inp.get_fault # "ok"
     THEN [w |-> w1, r |-> ErrorData("FAILED"),
           tr |-> [NoTrace EXCEPT !.l1 = "miss", !.l2 = "error"]]
     ELSE IF Truthy(cached_result)
     THEN [w |-> hit2,
           r |-> [loads([cached_result EXCEPT !.t = "str"]) EXCEPT !.cached = PyBool(TRUE)],
           tr |-> [NoTrace EXCEPT !.l1 = "miss", !.l2 = "hit"]]
     ELSE IF ~inp.exists \/ inp.analysis \notin Analyses
     THEN [w |-> w1, r |-> ErrorData("FAILED"), tr |-> miss]
     ELSE IF inp.set_fault # "ok"
     THEN [w |-> counted, r |-> ErrorData("FAILED"), tr |-> [miss EXCEPT !.computed = TRUE]]
     ELSE [w |-> saved, r |-> result_data,
           tr |-> [miss EXCEPT !.computed = TRUE, !.stored = TRUE]]

TaskNames == {"analyze_code_task", "analyze_code_task_with_bloom"}

offtask == <<max_memory, default_timeout, evicted, recency, intended, stale,
             convars, store, lru_access, loop, sweep, client, rc, cache_version>>

\* one execution of a task by the worker
TaskOp(task, inp) ==
  LET World == [l1 |-> Self, l2 |-> redis_cache, m |-> metrics]
      o == IF task = "analyze_code_task" THEN analyze_code_task(World, inp, now)
           ELSE analyze_code_task_with_bloom(World, inp, now)
  IN /\ ran.count < MaxTasks
     /\ Install(o.w.l1)
     /\ redis_cache' = o.w.l2
     /\ metrics' = o.w.m
     /\ ret' = o.r
     /\ lastOp' = Event(task, PyStr(inp.path), o.tr)
     /\ ran' = [count |-> ran.count + 1,
                fill |-> IF o.tr.l2 = "hit"
                         THEN [key |-> PyStr(inp.path), at |-> now]
                         ELSE ran.fill]
     /\ UNCHANGED <<now, offtask>>

\* atualizar_analise(project_path, novos_dados, project_id): writes
\* redis_cache only
AtualizarAnaliseOp(path, novos_dados, project_id) ==
  /\ redis_cache' = redis_setex(redis_cache, get_cache_key(path, project_id), 3600,
                                encode(dumps(novos_dados)), now)
  /\ ret' = novos_dados
  /\ lastOp' = Event("atualizar_analise", PyStr(path), None)
  /\ UNCHANGED <<cache, memory_usage, timeouts, version, metrics, ran, now, offtask>>

\* clear_cache(project_path) of test_write_through: deletes both redis keys
ClearCacheOp(path) ==
  /\ redis_cache' = Restrict(redis_cache,
                             DOMAIN redis_cache
                               \ {<<"a", "n", "a", "l", "y", "s", "i", "s", ":">> \o sha256(path),
                                  cache_key_v2(sha256(path))})
  /\ ret' = None
  /\ lastOp' = Event("clear_cache", PyStr(path), None)
  /\ UNCHANGED <<cache, memory_usage, timeouts, version, metrics, ran, now, offtask>>

\* time passing between tasks: up to and past the LRUCache default timeout
Sleep(d) ==
  /\ now + d <= 31 * MaxSleeps
  /\ now' = now + d
  /\ lastOp' = Event("sleep", None, None)
  /\ UNCHANGED <<cache, memory_usage, timeouts, version, ret, redis_cache, metrics,
                 ran, offtask>>

\* lru_cache = LRUCache(max_memory_mb=100, version=2), default_timeout = 30
InitTasks ==
  /\ cache = <<>>
  /\ memory_usage = 0
  /\ timeouts = <<>>
  /\ version = 2
  /\ max_memory = 100 * MB
  /\ default_timeout = PyInt(30)
  /\ now = 0
  /\ ret = None
  /\ lastOp = Event("init", None, None)
  /\ evicted = {}
  /\ recency = <<>>
  /\ intended = <<>>
  /\ stale = {}
  /\ pc = [t \in Threads |-> "idle"]
  /\ lock = Unlocked
  /\ local = [t \in Threads |-> NoLocals]
  /\ expect = [t \in Threads |-> None]
  /\ store = <<>>
  /\ lru_access = <<>>
  /\ loop = [i |-> 0, pc |-> "set"]
  /\ sweep = NoSweep
  /\ client = [pc |-> "idle", key |-> <<>>, timestamp |-> 0]
  /\ rc = [client |-> None, opened |-> 0, closed |-> ""]
  /\ redis_cache = <<>>
  /\ metrics = NoMetrics
  /\ ran = [count |-> 0, fill |-> None]
  /\ cache_version = CACHE_VERSION

NextTasks ==
  \/ \E task \in TaskNames, inp \in TaskInputs : TaskOp(task, inp)
  \/ \E path \in Paths, a \in Analyses :
       AtualizarAnaliseOp(path, ResultData("SUCCESS", "result", a, PyBool(FALSE)), None)
  \/ \E path \in Paths : ClearCacheOp(path)
  \/ \E d \in {30, 31} : Sleep(d)

SpecTasks == InitTasks /\ [][NextTasks]_vars

(* --------------------------- src/ab_routing.py -------------------------- *)
\* CohortConfig.weight is a float in [0, 1]; a weight is counted here in
\* units of 1 / (2 * MaxWeight), so that a draw can fall on a cumulative
\* weight and strictly between two of them
MaxWeight == 2

\* the loop of route_user over cohorts.items(), for one value of the draw
route_user(cohorts, rand_value) ==
  LET RECURSIVE items(_, _)
      items(i, cumulative) ==
        IF i > Len(cohorts) THEN None
        ELSE IF rand_value <= cumulative + cohorts[i].weight
             THEN PyStr(cohorts[i].name)
             ELSE items(i + 1, cumulative + cohorts[i].weight)
  IN items(1, 0)

\* route_user(user_id, ab_config): ab_config.cohorts is a dict, iterated in
\* insertion order, and random.uniform(0, total_weight) returns any float of
\* [0, total_weight], both ends included
NextRoute ==
  LET names == {<<"A">>, <<"B">>, <<"C">>}
      entries == [name : names, weight : {2 * n : n \in 0..MaxWeight}]
      configs == {c \in UNION {[1..n -> entries] : n \in 1..Cardinality(names)} :
                    \A i, j \in DOMAIN c : i # j => c[i].name # c[j].name}
  IN \E cohorts \in configs :
       LET RECURSIVE sum(_)
           sum(i) == IF i = 0 THEN 0 ELSE cohorts[i].weight + sum(i - 1)
           total_weight == sum(Len(cohorts))
       IN \E rand_value \in 0..total_weight :
            /\ ret' = route_user(cohorts, rand_value)
            /\ lastOp' = Event("route_user", None,
                               [cohorts |-> cohorts, rand_value |-> rand_value])
            /\ UNCHANGED <<cache, memory_usage, timeouts, version, max_memory,
                           default_timeout, now, evicted, recency, intended, stale,
                           convars, remotevars>>

SpecRoute == InitTasks /\ [][NextRoute]_vars

(* ------------------- values that change after the put ------------------- *)
\* put keeps a reference to the caller's object and adds its
\* sys.getsizeof(value) of that moment to memory_usage; the owner of a
\* mutable object (a list, a dict, a bytearray) changes its size afterwards.
\* One change is followed at a time: the next one waits until the account
\* is exact again, which keeps the drift finite.
MutateOp(i, size) ==
  /\ i \in 1..Len(cache)
  /\ memory_usage = SumSizes(cache)
  /\ size # getsizeof(cache[i].v)
  /\ cache' = [cache EXCEPT ![i].v.size = size]
  /\ lastOp' = Event("mutate", None, None)
  /\ UNCHANGED <<memory_usage, timeouts, version, max_memory, default_timeout,
                 now, ret, evicted, recency, intended, stale, convars, remotevars>>

SpecDrift ==
  Init /\ [][Next \/ \E i \in 1..2, value \in Values : MutateOp(i, getsizeof(value))]_vars

(* ------------- tasks.py: namespaces and the cache version --------------- *)
MaxBumps == 1         \* times CACHE_VERSION is raised in one run

\* invalidar_projeto(project_id): redis_cache.keys(pattern) returns the live
\* keys the glob f"analysis_v{CACHE_VERSION}:*:{project_id}" matches, '*'
\* standing for any run of characters
InvalidarProjetoOp(project_id) ==
  LET head == <<"a", "n", "a", "l", "y", "s", "i", "s", "_", "v">>
                \o Digits(cache_version) \o <<":">>
      tail == <<":">> \o project_id.s
      matches(k) == /\ Len(k) >= Len(head) + Len(tail)
                    /\ SubSeq(k, 1, Len(head)) = head
                    /\ SubSeq(k, Len(k) - Len(tail) + 1, Len(k)) = tail
      keys == {k \in DOMAIN redis_cache : now < redis_cache[k].exp /\ matches(k)}
  IN /\ redis_cache' = IF keys # {}
                       THEN Restrict(redis_cache, DOMAIN redis_cache \ keys)
                       ELSE redis_cache
     /\ ret' = [t |-> "list", items |-> keys]
     /\ lastOp' = Event("invalidar_projeto", project_id, None)
     /\ UNCHANGED <<cache, memory_usage, timeouts, version, metrics, ran, now, offtask>>

\* monkeypatch.setattr("api.src.tasks.CACHE_VERSION", CACHE_VERSION + 1), or
\* a release that raises the constant
RaiseVersion ==
  /\ cache_version < CACHE_VERSION + MaxBumps
  /\ cache_version' = cache_version + 1
  /\ lastOp' = Event("raise_version", None, None)
  /\ UNCHANGED <<cache, memory_usage, timeouts, version, max_memory, default_timeout,
                 now, ret, evicted, recency, intended, stale, convars, store,
                 lru_access, loop, sweep, client, rc, redis_cache, metrics, ran>>

\* tasks that meet no fault, on projects below the size thresholds
NextVersions ==
  \/ \E task \in TaskNames,
        inp \in {i \in TaskInputs : /\ i.exists /\ i.size = 999999
                                    /\ i.get_fault = "ok" /\ i.set_fault = "ok"
                                    /\ i.analysis \in Analyses} :
       TaskOp(task, inp)
  \/ \E path \in Paths \cup {<<"q">>}, project_id \in {PyStr(<<"7">>), PyStr(<<"8">>)} :
       AtualizarAnaliseOp(path,
                          ResultData("SUCCESS", "result",
                                     [t |-> "analysis", id |-> "r1"], PyBool(FALSE)),
                          project_id)
  \/ \E project_id \in {PyStr(<<"7">>), PyStr(<<"8">>)} : InvalidarProjetoOp(project_id)
  \/ RaiseVersion

SpecVersions == InitTasks /\ [][NextVersions]_vars

(* ------------------------------ claims --------------------------------- *)
VersionedKeyOf(ev) == get_versioned_key(version, ev.key)

\* C1: memory_usage equals the sum of the sizes of the entries held, after
\* every operation in any sequence, also when a put replaces a held key and
\* when it evicts.
C1_MemoryIsSum == memory_usage = SumSizes(cache)

\* a put that evicted an entry and left the new one accounted for
C1_Witness ==
  /\ lastOp.op = "put"
  /\ evicted # {}
  /\ cache # <<>>
  /\ memory_usage = SumSizes(cache)
  /\ memory_usage > 0

\* C2: once a put returns, memory_usage does not exceed max_memory, whatever
\* the size of the value.
C2_PutWithinBudget == lastOp.op = "put" => memory_usage <= max_memory

\* C3: when a put evicts for capacity, no entry accessed less recently than a
\* victim is still held afterwards (an access is a put of the key or a get hit).
C3_EvictsLeastRecent ==
  [][lastOp'.op = "put" =>
       \A y \in evicted' : \A x \in Range(recency) :
         (y \in Range(recency) /\ Position(recency, x) < Position(recency, y))
           => x \notin (Keys(cache') \ {get_versioned_key(version', lastOp'.key)})]_vars

\* a put that evicted exactly one of two held entries and kept the other
C3_Witness ==
  /\ lastOp.op = "put"
  /\ Cardinality(evicted) = 1
  /\ Len(cache) = 2
  /\ memory_usage <= max_memory

\* C5: after update_version a key held before the call is absent for get and
\* exists; the next put of that key is stored under the new version and an
\* immediate get returns its value.
C5_VersionInvalidates ==
  [][/\ (lastOp'.op = "get" /\ lastOp'.key \in stale') => ret' = None
     /\ (lastOp'.op = "exists" /\ lastOp'.key \in stale') => ret' = PyBool(FALSE)
     /\ (lastOp'.op = "put" /\ lastOp'.arg.re) =>
          /\ Has(cache', get_versioned_key(version', lastOp'.key))
          /\ Lookup(cache', get_versioned_key(version', lastOp'.key)) = lastOp'.arg.value
     /\ (lastOp.op = "put" /\ lastOp.arg.re /\ lastOp'.op = "get"
           /\ lastOp'.key = lastOp.key) => ret' = lastOp.arg.value]_vars

\* a get, under the new version, of a key that was held when update_version ran
C5_Witness ==
  /\ lastOp.op = "get"
  /\ lastOp.key \in stale
  /\ ret = None
  /\ version # 1

\* C6: an entry put with an explicit ttl t at time T, not evicted, replaced or
\* flushed since, is returned by get and reported by exists up to T+t, and is
\* absent for both after T+t.
C6_TtlHonoured ==
  LET vk == VersionedKeyOf(lastOp)
  IN (lastOp.op \in {"get", "exists"} /\ vk \in DOMAIN intended /\ intended[vk].explicit)
       => LET alive == now <= intended[vk].deadline.n
          IN IF lastOp.op = "get"
             THEN ret = (IF alive THEN intended[vk].value ELSE None)
             ELSE ret = PyBool(alive)

\* a get after the deadline of an entry put with a ttl
C6_Witness ==
  LET vk == VersionedKeyOf(lastOp)
  IN /\ lastOp.op = "get"
     /\ vk \in DOMAIN intended
     /\ intended[vk].explicit
     /\ now > intended[vk].deadline.n
     /\ ret = None

\* C7: an entry put without a ttl into a cache with no default timeout is
\* never treated as expired: until it is evicted, replaced or flushed it is
\* held, and get and exists find it.
C7_NoTtlNeverExpires ==
  /\ \A vk \in DOMAIN intended : intended[vk].deadline = None => Has(cache, vk)
  /\ LET vk == VersionedKeyOf(lastOp)
     IN (lastOp.op \in {"get", "exists"} /\ vk \in DOMAIN intended
           /\ intended[vk].deadline = None)
          => ret = (IF lastOp.op = "get" THEN intended[vk].value ELSE PyBool(TRUE))

\* C8: put(k, v) immediately followed by get(k) returns exactly v.
C8_PutGetRoundTrip ==
  [][(lastOp.op = "put" /\ lastOp'.op = "get" /\ lastOp'.key = lastOp.key)
       => ret' = lastOp.arg.value]_vars

\* C4: under any interleaving of calls from several threads each call takes
\* effect as a whole: when it leaves the lock it has returned and left exactly
\* what it would have when run alone from the state in which it took the lock,
\* and whenever the lock is free memory_usage is the sum of the entry sizes and
\* every held key is held once.
C4_CallsAreAtomic ==
  /\ \A t \in Threads :
       pc[t] = "release" =>
         expect[t] = [s |-> [cache |-> cache, memory_usage |-> memory_usage,
                             timeouts |-> timeouts, version |-> version],
                      r |-> local[t].r]
  /\ lock.count = 0 =>
       /\ memory_usage = SumSizes(cache)
       /\ Cardinality(Keys(cache)) = Len(cache)

\* a put that evicted is about to leave the lock while another thread waits
C4_Witness ==
  \E t \in Threads, u \in Threads :
    /\ t # u
    /\ pc[t] = "release"
    /\ local[t].op = "put"
    /\ local[t].val # None
    /\ pc[u] = "acquire"
    /\ memory_usage = SumSizes(cache)

\* C9: delete(logical_key) removes the entry if present, subtracts its size
\* and returns whether something was removed (false the second time).
C9_DeleteReturnsRemoved ==
  lastOp.op = "remove_item" =>
    /\ ret = lastOp.arg
    /\ ~Has(cache, VersionedKeyOf(lastOp))
    /\ memory_usage = SumSizes(cache)

\* C10: a get or put with an empty or null key is rejected with an error and
\* stores nothing.
Rejected == [t |-> "rejected"]

C10_InvalidKeyRejected ==
  (lastOp.op \in {"get", "put"} /\ lastOp.key \in InvalidKeys) =>
    /\ ret = Rejected
    /\ ~Has(cache, VersionedKeyOf(lastOp))

(* ------------------------ claims: evict_oldest -------------------------- *)
\* what the last evict_oldest call started from and what it removed
SweepFrom == lastOp.arg
SweepRan == lastOp.op = "evict_oldest" /\ used_memory(SweepFrom.store) >= SweepFrom.max_memory
RemovedFromStore == DOMAIN SweepFrom.store \ DOMAIN store
RemovedFromIndex == DOMAIN SweepFrom.lru_access \ DOMAIN lru_access

\* ceil(0.1 * n), at least 1
TenthRoundedUp(n) == LET c == (n + 9) \div 10 IN IF c < 1 THEN 1 ELSE c

\* C11: when evict_oldest runs with used memory at or above the ceiling and
\* N >= 1 keys tracked (every one of them held by the store), exactly
\* max(1, ceil(0.1 * N)) keys leave the store and the access index.
C11_RemovesTenthRoundedUp ==
  (/\ SweepRan
   /\ zcard(SweepFrom.lru_access) >= 1
   /\ DOMAIN SweepFrom.lru_access \subseteq DOMAIN SweepFrom.store)
  => /\ Cardinality(RemovedFromIndex) = TenthRoundedUp(zcard(SweepFrom.lru_access))
     /\ Cardinality(RemovedFromStore) = TenthRoundedUp(zcard(SweepFrom.lru_access))

\* C12: one sweep removes exactly the lowest-scored keys of the access index:
\* no removed key has a later last track_access than a key that survives, the
\* survivors keep their scores, the store loses exactly the victims it held,
\* and a key that was never tracked is never deleted from the store.
C12_RemovesLowestScored ==
  lastOp.op = "evict_oldest" =>
    /\ \A a \in RemovedFromIndex : \A b \in DOMAIN lru_access :
         SweepFrom.lru_access[a] <= SweepFrom.lru_access[b]
    /\ DOMAIN lru_access \subseteq DOMAIN SweepFrom.lru_access
    /\ \A b \in DOMAIN lru_access : lru_access[b] = SweepFrom.lru_access[b]
    /\ RemovedFromStore = RemovedFromIndex \cap DOMAIN SweepFrom.store
    /\ DOMAIN store \subseteq DOMAIN SweepFrom.store
    /\ SweepRan => Cardinality(RemovedFromIndex) =
                     (IF zcard(SweepFrom.lru_access) = 0 THEN 0
                      ELSE num_to_remove(zcard(SweepFrom.lru_access)))
    /\ ~SweepRan => RemovedFromIndex = {}

\* a sweep took two victims although the first key stored was among the
\* earliest tracked: it was accessed again, at a later time than a victim
C12_Witness ==
  /\ lastOp.op = "evict_oldest"
  /\ Cardinality(RemovedFromIndex) = 2
  /\ TestKey(0) \in DOMAIN lru_access
  /\ \E a \in RemovedFromIndex : SweepFrom.lru_access[a] < lru_access[TestKey(0)]
  /\ \E b \in DOMAIN lru_access : \E a \in RemovedFromIndex :
       SweepFrom.lru_access[a] = lru_access[b]

\* C13: after evict_oldest(max_memory) returns, used memory is below
\* max_memory, whatever the number of tracked keys and the usage before
\* (every stored key being tracked).
C13_BelowCeilingAfterSweep ==
  (/\ lastOp.op = "evict_oldest"
   /\ DOMAIN SweepFrom.store = DOMAIN SweepFrom.lru_access)
  => used_memory(store) < SweepFrom.max_memory

\* C14: under any interleaving of a sweep with set and track_access calls on
\* the same keys, once the sweep has finished the access index references no
\* key that is absent from the store, and the sweep has removed no key whose
\* access was recorded after the victims were selected.
C14_SweepSafeUnderTraffic ==
  sweep.pc = "done" =>
    /\ DOMAIN lru_access \subseteq DOMAIN store
    /\ sweep.removed \cap sweep.after = {}

(* -------------------------- claims: cluster.py -------------------------- *)
\* the store reports cluster mode disabled
ReportsDisabled(query) ==
  /\ query.fault = "ok"
  /\ query.reply # None
  /\ dict_get(query.reply, "cluster_enabled", None) = PyStr(<<"0">>)

\* C15: get_slot_distribution returns the standalone descriptor (16384 slots,
\* one node, 16384 slots per node) whenever the store reports cluster mode
\* disabled and whenever the cluster-info query fails with any error; no
\* error reaches the caller, and every call gives the same result.
C15_StandaloneFallback ==
  (/\ lastOp.op = "get_slot_distribution"
   /\ lastOp.arg.closing \in {"ok", "RedisError"}
   /\ (ReportsDisabled(lastOp.arg.query) \/ lastOp.arg.query.fault # "ok"))
  => ret = Standalone

\* C17: every RedisCluster operation absorbs a store error (redis.RedisError):
\* get returns None, set and delete (and flushall, client_kill_filter) return
\* False and close raises nothing; close resets the client reference also
\* when closing failed, so the next operation opens a fresh client.
C17_StoreErrorsAbsorbed ==
  [][/\ (lastOp'.op = "rc_get" /\ lastOp'.arg.fault = "RedisError") => ret' = None
     /\ (lastOp'.op \in RcCalls \ {"rc_get"} /\ lastOp'.arg.fault = "RedisError")
          => ret' = PyBool(FALSE)
     /\ (lastOp'.op = "rc_close" /\ lastOp'.arg.fault \in {"ok", "RedisError"})
          => ret' = None
     /\ lastOp'.op = "rc_close" => rc'.client = None
     /\ (lastOp.op = "rc_close" /\ lastOp'.op \in RcCalls)
          => /\ rc'.client = PyInt(rc.opened + 1)
             /\ rc'.opened = rc.opened + 1]_vars

\* a get fails with a store error on the client opened after a close that
\* failed too
C17_Witness ==
  /\ lastOp.op = "rc_get"
  /\ lastOp.arg.fault = "RedisError"
  /\ ~lastOp.arg.held
  /\ rc.closed = "RedisError"
  /\ rc.client = PyInt(2)
  /\ ret = None


\* executions whose only fault is the transport error of redis_cache.get
GetFaulted ==
  {inp \in TaskInputs : /\ inp.get_fault = "RedisError" /\ inp.exists
                        /\ inp.analysis \in Analyses /\ inp.set_fault = "ok"}

\* C16: in both tasks, when redis_cache.get raises a transport error and
\* nothing else fails, the task computes the analysis and returns it with
\* its success status, never a failure dict.
C16_GetErrorIsMiss ==
  [][(lastOp'.op \in TaskNames /\ lastOp'.arg.l2 = "error")
       => \A inp \in GetFaulted :
            TaskOp(lastOp'.op, inp)
              => /\ ret'.status \in {"SUCCESS", "COMPLETED"}
                 /\ ret'.data = inp.analysis]_vars


\* the L1 key and the L2 key of the path a task event names
L1KeyOf(ev) == get_versioned_key(version, PyStr(sha256(ev.key.s)))

L2KeyOf(ev) == get_cache_key(ev.key.s, None)

\* the event is a task execution that read the cache
TaskRead(ev) == ev.op \in TaskNames /\ ev.arg.l1 # "skipped"

\* C18: a task reads L1 first and L2 only after an L1 miss; an L2 hit leaves
\* the L2 value in L1 under the path's key, and the next read of the path, up
\* to the L1 timeout after that, is an L1 hit that does not read L2; a read
\* that misses L2 and stores nothing leaves the key out of L1.
C18_ReadThrough ==
  [][TaskRead(lastOp') =>
       /\ lastOp'.arg.l2 # "skipped" <=> lastOp'.arg.l1 = "miss"
       /\ lastOp'.arg.l2 = "hit" =>
            /\ Has(cache', L1KeyOf(lastOp'))
            /\ Lookup(cache', L1KeyOf(lastOp')) = redis_cache'[L2KeyOf(lastOp')].v
       /\ (/\ ran.fill # None
           /\ ran.fill.key = lastOp'.key
           /\ now <= ran.fill.at + default_timeout.n)
            => lastOp'.arg.l1 = "hit" /\ lastOp'.arg.l2 = "skipped"
       /\ (lastOp'.arg.l2 = "miss" /\ ~lastOp'.arg.stored)
            => ~Has(cache', L1KeyOf(lastOp'))]_vars

\* a task found in L1 what an earlier L2 hit had put there
C18_Witness ==
  /\ TaskRead(lastOp)
  /\ lastOp.arg.l1 = "hit"
  /\ ran.fill # None
  /\ ran.fill.key = lastOp.key
  /\ ran.count = 2


\* update_cache_metrics calls of the event with this tier and outcome
CallsOf(ev, cache_type, hit) ==
  Cardinality({i \in DOMAIN ev.arg.calls :
                 ev.arg.calls[i] = MetricCall(cache_type, hit)})

\* C19: each outcome of a cache read in analyze_code_task is counted for its
\* tier: an L1 hit as one 'lru' hit; an L1 miss as one 'lru' miss; an L2 hit
\* as one 'redis' hit; an L2 miss as one 'redis' miss; and the hit and miss
\* counters move by exactly those counts.
C19_OutcomeCountedPerTier ==
  [][(lastOp'.op = "analyze_code_task" /\ TaskRead(lastOp')) =>
       /\ CallsOf(lastOp', "lru", TRUE) = (IF lastOp'.arg.l1 = "hit" THEN 1 ELSE 0)
       /\ CallsOf(lastOp', "lru", FALSE) = (IF lastOp'.arg.l1 = "miss" THEN 1 ELSE 0)
       /\ CallsOf(lastOp', "redis", TRUE) = (IF lastOp'.arg.l2 = "hit" THEN 1 ELSE 0)
       /\ CallsOf(lastOp', "redis", FALSE) = (IF lastOp'.arg.l2 = "miss" THEN 1 ELSE 0)
       /\ metrics'.hits - metrics.hits
            = CallsOf(lastOp', "lru", TRUE) + CallsOf(lastOp', "redis", TRUE)
       /\ metrics'.misses - metrics.misses
            = CallsOf(lastOp', "lru", FALSE) + CallsOf(lastOp', "redis", FALSE)]_vars


\* C20: when a task computes and stores the analysis of a path and the next
\* step is a task on the same path, the first result has cached = False, the
\* second has cached = True, and both carry the same analysis data.
C20_SecondRunCached ==
  [][(/\ lastOp.op \in TaskNames /\ lastOp.arg.stored
      /\ lastOp'.op \in TaskNames /\ lastOp'.key = lastOp.key
      /\ TaskRead(lastOp'))
       => /\ ret.cached = PyBool(FALSE)
          /\ ret'.cached = PyBool(TRUE)
          /\ ret'.data = ret.data]_vars


(* --------------------------- claims: tasks.py --------------------------- *)

\* C21: when a task stores the result it has just computed, the key of the
\* path in redis_cache holds that result and expires 3600 s from now for a
\* project below 1,000,000 bytes and 600 s from now otherwise.
C21_TtlBySize ==
  [][(lastOp'.op \in TaskNames /\ lastOp'.arg.stored) =>
       \A inp \in TaskInputs :
         TaskOp(lastOp'.op, inp) =>
           /\ redis_cache'[L2KeyOf(lastOp')].v = encode(dumps(ret'))
           /\ redis_cache'[L2KeyOf(lastOp')].exp
                = now + (IF inp.size < 1000000 THEN 3600 ELSE 600)]_vars

\* a task stored a result with the short expiry, after time had passed
C21_Witness ==
  /\ lastOp.op \in TaskNames
  /\ lastOp.arg.stored
  /\ now > 0
  /\ redis_cache[L2KeyOf(lastOp)].exp = now + 600


\* executions whose only fault is the transport error of redis_cache.setex
SetFaulted ==
  {inp \in TaskInputs : /\ inp.set_fault = "RedisError" /\ inp.get_fault = "ok"
                        /\ inp.exists /\ inp.analysis \in Analyses}

\* C24: when a task has computed a result and only the redis_cache write
\* fails, L1 still receives the result under the path's key and the caller
\* gets the same result as without the failure.
C24_BestEffortDualWrite ==
  [][(lastOp'.op \in TaskNames /\ lastOp'.arg.computed /\ ~lastOp'.arg.stored) =>
       \A inp \in SetFaulted :
         TaskOp(lastOp'.op, inp) =>
           /\ ret'.data = inp.analysis
           /\ ret'.status \in {"SUCCESS", "COMPLETED"}
           /\ Has(cache', L1KeyOf(lastOp'))
           /\ loads(Lookup(cache', L1KeyOf(lastOp'))) = ret']_vars


\* C22: invalidar_projeto(project_id) returns the keys get_cache_key made for
\* that project_id, for whatever path, that the remote store held; none of
\* them is held afterwards, and every other key keeps its value and expiry.
C22_InvalidatesNamespace ==
  [][lastOp'.op = "invalidar_projeto" =>
       LET mine == {get_cache_key(path, lastOp'.key) : path \in Paths \cup {<<"q">>}}
                     \cap DOMAIN redis_cache
       IN /\ ret'.items = mine
          /\ mine \cap DOMAIN redis_cache' = {}
          /\ \A k \in DOMAIN redis_cache \ mine :
               k \in DOMAIN redis_cache' /\ redis_cache'[k] = redis_cache[k]]_vars

\* C23: a task run on a path after CACHE_VERSION was raised from v to v + 1,
\* with the path's analysis_v{v} key in the remote store, leaves the store
\* holding the analysis_v{v + 1} key of the path and not the analysis_v{v} key.
C23_BumpReplacesOldKey ==
  [][LET key(v, path) == <<"a", "n", "a", "l", "y", "s", "i", "s", "_", "v">>
                           \o Digits(v) \o <<":">> \o sha256(path)
     IN (/\ lastOp'.op \in TaskNames
         /\ cache_version > CACHE_VERSION
         /\ key(cache_version - 1, lastOp'.key.s) \in DOMAIN redis_cache)
        => /\ key(cache_version, lastOp'.key.s) \in DOMAIN redis_cache'
           /\ key(cache_version - 1, lastOp'.key.s) \notin DOMAIN redis_cache']_vars

(* ------------------------ claims: force_eviction ------------------------ *)

\* the three fields force_eviction may write are as they were
CacheUntouched ==
  cache' = cache /\ memory_usage' = memory_usage /\ timeouts' = timeouts

\* C25 as stated: called with memory_usage <= max_memory, force_eviction
\* removes no entry and leaves memory_usage and the order unchanged; it
\* always returns with memory_usage <= max_memory; a second call right after
\* changes nothing.
C25_NoOpUnderBudget ==
  [][lastOp'.op = "force_eviction" =>
       /\ memory_usage <= max_memory => CacheUntouched
       /\ memory_usage' <= max_memory
       /\ lastOp.op = "force_eviction" => CacheUntouched]_vars

\* C25 amended: called with memory_usage <= max_memory, force_eviction
\* removes exactly the entries whose recorded expiration lies in the past,
\* keeps the others in their order and lowers memory_usage by the sizes
\* removed; it always returns with memory_usage <= max_memory; a second call
\* right after changes nothing.
C25_PurgesOnlyExpired ==
  [][lastOp'.op = "force_eviction" =>
       /\ memory_usage <= max_memory =>
            /\ cache' = SelectSeq(cache, LAMBDA e : ~is_expired(timeouts, e.k, now))
            /\ memory_usage' = memory_usage - (SumSizes(cache) - SumSizes(cache'))
       /\ memory_usage' <= max_memory
       /\ lastOp.op = "force_eviction" => CacheUntouched]_vars

\* force_eviction returned from a cache that was within its budget and still
\* holds entries, after time has passed
C25_Witness ==
  /\ lastOp.op = "force_eviction"
  /\ evicted = {}
  /\ cache # <<>>
  /\ memory_usage <= max_memory
  /\ now > 0


\* C27: when force_eviction returns, memory_usage is the sum of the sizes of
\* the entries then held, whatever memory_usage was before the call.
C27_ReconcilesDrift ==
  lastOp.op = "force_eviction" => memory_usage = SumSizes(cache)

(* ------------------------- claims: invariants --------------------------- *)

\* C28: every key with a recorded expiration timestamp has an entry in the
\* cache.
C28_NoOrphanTimeout == DOMAIN timeouts \subseteq Keys(cache)

\* C29: every stored key is the versioned form, under the current version,
\* of a key a caller used, and memory_usage counts exactly those entries.
C29_KeysCarryCurrentVersion ==
  /\ \A k \in Keys(cache) : \E key \in AllKeys : k = get_versioned_key(version, key)
  /\ memory_usage = SumSizes(cache)

\* an entry was put after update_version moved the cache to another version
C29_Witness ==
  /\ lastOp.op = "put"
  /\ lastOp.arg.re
  /\ cache # <<>>
  /\ version # 1


(* ---------------------------- claims: lock ------------------------------ *)

\* C30: a thread that is not inside a call holds no lock, and under fair
\* scheduling every thread that has called an operation returns.
C30_EveryCallReturns ==
  /\ [](\A t \in Threads : pc[t] = "idle" => lock.owner # t)
  /\ \A t \in Threads : (pc[t] # "idle") ~> (pc[t] = "idle")

\* update_version is inside clear, holding the lock twice, while the other
\* thread waits for the lock
C30_Witness ==
  \E t, u \in Threads :
    /\ local[t].op = "update_version"
    /\ pc[t] = "clear_cache"
    /\ lock = [owner |-> t, count |-> 2]
    /\ pc[u] = "acquire"

(* ------------------------- claims: ab_routing --------------------------- *)
\* C26: when some cohort has a positive weight, route_user returns no cohort
\* whose weight is 0, whatever the draw and whatever the order of the cohorts.
C26_NeverZeroWeight ==
  lastOp.op = "route_user" =>
    LET cohorts == lastOp.arg.cohorts
    IN (\E i \in DOMAIN cohorts : cohorts[i].weight > 0) =>
         \A i \in DOMAIN cohorts :
           cohorts[i].weight = 0 => ret # PyStr(cohorts[i].name)

====
